---- MODULE Spec2Model ----
(***************************************************************************)
(* radiorec.py: recording of an internet radio stream.                     *)
(*                                                                         *)
(* Two threads: the supervisor (record, called by main) and the capture    *)
(* engine (record_worker, a daemon thread).  They share the Event stoprec. *)
(* The HTTP server and the file system are the environment.                *)
(*                                                                         *)
(* Text is a sequence of characters (one-character strings), bytes are     *)
(* sequences of integers 0..255.  Audio payload is opaque: a chunk of it   *)
(* is the interval of stream positions it was read from.                   *)
(***************************************************************************)
EXTENDS Integers, Sequences, FiniteSets, TLC

\* ------------------------------------------------------------- bounds
\* Full chunks the connection delivers before it must end, fail or stall.
MaxChunks == 2

\* --------------------------------------------------- python primitives
\* Python's None; no header value and no content type of the model is this.
None == "<None>"

\* str.lower() on the characters header names are made of.
LowerChar(c) ==
    CASE c = "I" -> "i"
      [] c = "C" -> "c"
      [] c = "Y" -> "y"
      [] c = "M" -> "m"
      [] c = "E" -> "e"
      [] c = "T" -> "t"
      [] c = "A" -> "a"
      [] c = "N" -> "n"
      [] OTHER   -> c

Lower(s) == [i \in 1..Len(s) |-> LowerChar(s[i])]

\* str.startswith
StartsWith(s, p) == Len(s) >= Len(p) /\ SubSeq(s, 1, Len(p)) = p

IsDigit(c) == c \in {"0", "1", "2", "3", "4", "5", "6", "7", "8", "9"}

DigitVal(c) ==
    CASE c = "0" -> 0 [] c = "1" -> 1 [] c = "2" -> 2 [] c = "3" -> 3
      [] c = "4" -> 4 [] c = "5" -> 5 [] c = "6" -> 6 [] c = "7" -> 7
      [] c = "8" -> 8 [] c = "9" -> 9

RECURSIVE DigitsVal(_)
DigitsVal(s) ==
    IF s = <<>> THEN 0
    ELSE 10 * DigitsVal(SubSeq(s, 1, Len(s) - 1)) + DigitVal(s[Len(s)])

AllDigits(s) == s # <<>> /\ \A i \in 1..Len(s) : IsDigit(s[i])

\* int(str) for text over digits, '-' and letters: an optional sign followed
\* by one or more digits, anything else raises ValueError (ok = FALSE).
ParseInt(s) ==
    IF s # <<>> /\ Head(s) = "-"
    THEN IF AllDigits(Tail(s))
         THEN [ok |-> TRUE, val |-> 0 - DigitsVal(Tail(s))]
         ELSE [ok |-> FALSE, val |-> 0]
    ELSE IF AllDigits(s)
         THEN [ok |-> TRUE, val |-> DigitsVal(s)]
         ELSE [ok |-> FALSE, val |-> 0]

\* ------------------------------------------------------ response headers
IcyMetaintKey == <<"i", "c", "y", "-", "m", "e", "t", "a", "i", "n", "t">>
IcyMetaIntMixedKey == <<"I", "c", "y", "-", "M", "e", "t", "a", "I", "n", "t">>
IcyPrefix == <<"i", "c", "y", "-">>
\* HTTPResponse.getheader(name) on the icy headers: the lookup ignores
\* letter case; None when no header has the name.  hdrs is getheaders():
\* <<name, value>> pairs, names in the server's spelling.
GetHeader(hdrs, name) ==
    LET hits == {i \in 1..Len(hdrs) : Lower(hdrs[i][1]) = Lower(name)}
    IN  IF hits = {} THEN None
        ELSE hdrs[CHOOSE i \in hits : \A j \in hits : i <= j][2]

\* ------------------------------------------------------ ICY metadata codec
Semicolon == 59
EqualsSign == 61

\* bytes.split(sep): the fields between separators, empty ones included.
RECURSIVE SplitBytes(_, _)
SplitBytes(b, sep) ==
    IF \A i \in 1..Len(b) : b[i] # sep THEN <<b>>
    ELSE LET k == CHOOSE i \in 1..Len(b) :
                      b[i] = sep /\ \A j \in 1..(i - 1) : b[j] # sep
         IN  <<SubSeq(b, 1, k - 1)>> \o SplitBytes(SubSeq(b, k + 1, Len(b)), sep)

IsContinuation(x) == x >= 128 /\ x <= 191

\* bytes.decode('utf-8') for one- and two-byte sequences; every other lead
\* byte the model's blocks hold (a bare continuation byte, 0xFF) is invalid.
\* The text is a sequence of code points.
RECURSIVE Utf8Decode(_)
Utf8Decode(b) ==
    IF b = <<>> THEN [ok |-> TRUE, text |-> <<>>]
    ELSE IF b[1] < 128
    THEN LET r == Utf8Decode(Tail(b))
         IN  [ok |-> r.ok, text |-> <<b[1]>> \o r.text]
    ELSE IF b[1] >= 194 /\ b[1] <= 223 /\ Len(b) >= 2 /\ IsContinuation(b[2])
    THEN LET r == Utf8Decode(SubSeq(b, 3, Len(b)))
         IN  [ok |-> r.ok,
              text |-> <<(b[1] - 192) * 64 + (b[2] - 128)>> \o r.text]
    ELSE [ok |-> FALSE, text |-> <<>>]

\* str.split('=', 1): one element when there is no '=', else the text
\* before the first '=' and the text after it.
SplitFirstEquals(t) ==
    IF \A i \in 1..Len(t) : t[i] # EqualsSign THEN <<t>>
    ELSE LET k == CHOOSE i \in 1..Len(t) :
                      t[i] = EqualsSign /\ \A j \in 1..(i - 1) : t[j] # EqualsSign
         IN  <<SubSeq(t, 1, k - 1), SubSeq(t, k + 1, Len(t))>>

IsSpace(c) == c \in {9, 10, 11, 12, 13, 28, 29, 30, 31, 32, 133, 160}

\* str.strip()
RECURSIVE Strip(_)
Strip(t) ==
    IF t = <<>> THEN t
    ELSE IF IsSpace(t[1]) THEN Strip(Tail(t))
    ELSE IF IsSpace(t[Len(t)]) THEN Strip(SubSeq(t, 1, Len(t) - 1))
    ELSE t

\* t[1:] in the place of t[1:-1]: the closing quote is kept.
SliceInnerKeepLast(t) == SubSeq(t, 2, Len(t))

\* t[1:-1]
SliceInner(t) == SubSeq(t, 2, Len(t) - 1)

\* dta[k] = v on a dict kept as <<key, value>> pairs in insertion order.
DictSet(d, k, v) ==
    IF \E i \in 1..Len(d) : d[i][1] = k
    THEN [i \in 1..Len(d) |-> IF d[i][1] = k THEN <<k, v>> ELSE d[i]]
    ELSE Append(d, <<k, v>>)

\* The loop of parse_icy over the fields, dta being the dict so far.  A field
\* that is not UTF-8 raises UnicodeDecodeError, one without '=' ValueError.
RECURSIVE ParseFields(_, _)
ParseFields(fields, dta) ==
    IF fields = <<>> THEN [ok |-> TRUE, err |-> None, dta |-> dta]
    ELSE LET var == Head(fields) IN
         IF var = <<>> THEN ParseFields(Tail(fields), dta)
         ELSE LET dec == Utf8Decode(var) IN
              IF ~dec.ok
              THEN [ok |-> FALSE, err |-> "UnicodeDecodeError", dta |-> <<>>]
              ELSE LET parts == SplitFirstEquals(dec.text) IN
                   IF Len(parts) # 2
                   THEN [ok |-> FALSE, err |-> "ValueError(unpack)", dta |-> <<>>]
                   ELSE ParseFields(Tail(fields),
                            DictSet(dta, parts[1], SliceInner(Strip(parts[2]))))

parse_icy(metadata) == ParseFields(SplitBytes(metadata, Semicolon), <<>>)

\* bytes.replace(b'\x00', b'')
RECURSIVE StripNul(_)
StripNul(b) ==
    IF b = <<>> THEN b
    ELSE IF b[1] = 0 THEN StripNul(Tail(b))
    ELSE <<b[1]>> \o StripNul(Tail(b))

\* --------------------------------------------------- content-type resolver
\* The chain without its audio/x-mpegurl branch: a playlist falls through
\* to the mp3 fallback.
ContentTypeResolveNoPlaylist(content_type) ==
    IF content_type = "audio/mpeg"
    THEN [kind |-> "ext", ext |-> ".mp3"]
    ELSE IF content_type \in {"application/aacp", "audio/aacp", "audio/aac"}
    THEN [kind |-> "ext", ext |-> ".aac"]
    ELSE IF content_type \in {"application/ogg", "audio/ogg"}
    THEN [kind |-> "ext", ext |-> ".ogg"]
    ELSE IF content_type = None
    THEN [kind |-> "TypeError", ext |-> None]
    ELSE [kind |-> "ext", ext |-> ".mp3"]

\* The if/elif chain of record_worker on the Content-Type header: the file
\* extension, SystemExit for an M3U playlist, and TypeError when the header
\* is missing (the else branch concatenates None to a string).
ContentTypeResolve(content_type) ==
    IF content_type = "audio/mpeg"
    THEN [kind |-> "ext", ext |-> ".mp3"]
    ELSE IF content_type \in {"application/aacp", "audio/aacp", "audio/aac"}
    THEN [kind |-> "ext", ext |-> ".aac"]
    ELSE IF content_type \in {"application/ogg", "audio/ogg"}
    THEN [kind |-> "ext", ext |-> ".ogg"]
    ELSE IF content_type = "audio/x-mpegurl"
    THEN [kind |-> "SystemExit", ext |-> None]
    ELSE IF content_type = None
    THEN [kind |-> "TypeError", ext |-> None]
    ELSE [kind |-> "ext", ext |-> ".mp3"]

\* ------------------------------------------------------------ environment
ContentTypes ==
    {"audio/mpeg", "application/aacp", "audio/aacp", "audio/aac",
     "application/ogg", "audio/ogg", "audio/x-mpegurl", "text/html", None}

\* icy-metaint values a server may send: 1, 2, 16, 0, -1, -2, a, 1a and
\* the empty text.
HeaderValues ==
    {<<"1">>, <<"2">>, <<"1", "6">>, <<"0">>, <<"-", "1">>, <<"-", "2">>,
     <<"a">>, <<"1", "a">>, <<>>}

\* The icy-* headers of a response: none, or an icy-metaint header in the
\* usual spelling or, with the values 2 and a, in another spelling.
IcyHeaderLists ==
    {<<>>}
    \cup {<<<<IcyMetaintKey, v>>>> : v \in HeaderValues}
    \cup {<<<<IcyMetaIntMixedKey, v>>>> : v \in {<<"2">>, <<"a">>}}

Responses == [contentType : ContentTypes, icy : IcyHeaderLists]

NoResponse == [contentType |-> None, icy |-> <<>>]

\* Length bytes the server sends, and metadata payloads before NUL padding:
\* a='b';  a  0xFF  (nothing)  a='b';a='c';
LengthBytes == {0, 1}

Payloads ==
    {<<97, 61, 39, 98, 39, 59>>, <<97>>, <<255>>, <<>>,
     <<97, 61, 39, 98, 39, 59, 97, 61, 39, 99, 39, 59>>}

Nuls(n) == [i \in 1..n |-> 0]

MetaBlock(payload, n) == SubSeq(payload \o Nuls(n - Len(payload)), 1, n)

\* The stream as the server lays it out.  A server that was asked for
\* metadata (Icy-MetaData: 1, lines 86-87) and announces a positive interval
\* m sends groups of m audio bytes, one length byte v and 16 * v metadata
\* bytes; any other stream is audio throughout.  c is the offset in the
\* current group, v its length byte once that has been sent.
Unframed == [framed |-> FALSE, m |-> 0, c |-> 0, v |-> 0]

ServerOf(icy, r) ==
    LET n == ParseInt(GetHeader(r.icy, IcyMetaintKey))
    IN  IF icy /\ GetHeader(r.icy, IcyMetaintKey) # None /\ n.ok /\ n.val > 0
        THEN [framed |-> TRUE, m |-> n.val, c |-> 0, v |-> 0]
        ELSE Unframed

GroupLen(m, v) == m + 1 + 16 * v

Min(a, b) == IF a <= b THEN a ELSE b

\* What the bytes at offsets a .. b-1 of a group are.
SegRoles(m, a, b) ==
    (IF a < b /\ a < m THEN {"audio"} ELSE {})
    \cup (IF a <= m /\ m < b THEN {"len"} ELSE {})
    \cup (IF a < b /\ b > m + 1 THEN {"meta"} ELSE {})

SegAudio(m, a, b) == IF a < b /\ a < m THEN Min(b, m) - a ELSE 0

\* The server sends the next k bytes; v is the length byte of the groups
\* whose length byte is among them.
Emit(s, k, v) ==
    IF ~s.framed \/ k <= 0
    THEN [srv |-> s, roles |-> IF k > 0 THEN {"audio"} ELSE {},
          audio |-> IF k > 0 THEN k ELSE 0]
    ELSE LET vc == IF s.c > s.m THEN s.v ELSE v
             rest == GroupLen(s.m, vc) - s.c
         IN  IF k < rest
             THEN [srv |-> [s EXCEPT !.c = s.c + k,
                                     !.v = IF s.c + k > s.m THEN vc ELSE 0],
                   roles |-> SegRoles(s.m, s.c, s.c + k),
                   audio |-> SegAudio(s.m, s.c, s.c + k)]
             ELSE LET k2 == k - rest
                      P == GroupLen(s.m, v)
                      q == k2 \div P
                      r == k2 % P
                  IN  [srv |-> [s EXCEPT !.c = r,
                                         !.v = IF r > s.m THEN v ELSE 0],
                       roles |-> SegRoles(s.m, s.c, s.c + rest)
                                 \cup (IF q > 0 THEN SegRoles(s.m, 0, P) ELSE {})
                                 \cup SegRoles(s.m, 0, r),
                       audio |-> SegAudio(s.m, s.c, s.c + rest) + q * s.m
                                 + SegAudio(s.m, 0, r)]

\* -------------------------------------------------------------- the state
VARIABLES
    args,           \* [icy, public]: the command line
    codec,          \* [pc, mapping, wire, out]: a run of the ICY codec alone
    supPc,          \* where record is
    stoprec,        \* threading.Event: set or not
    recordResult,   \* what record handed back to main
    engAtSet,       \* record_worker's state when stoprec was set: Running
                    \* or the terminal state it had reached
    engPc,          \* where record_worker is
    abortReason,    \* the exception that ended record_worker
    exitReason,     \* which operand of the while test ended the loop
    resp,           \* the response headers
    filenameExt,    \* extension appended to filename
    icyMetaint,     \* [none, val]: None or an int
    readLength,
    metaTarget,     \* TRUE: a file object, FALSE: None
    metalength,
    audioExists, audioOpen, audioPublic, audioFile,
    metaExists, metaOpen, metaFile,
    pos,            \* bytes read from the connection so far
    connEof,        \* the response is exhausted (fp is None)
    connClosed,     \* conn.closed
    closedAtEof,    \* whether this connection object reports closed at EOF
    stalled,        \* a read that never returns
    chunks,         \* full audio chunks delivered
    srv,            \* [framed, m, c, v]: where the server is in its stream
    demux,          \* what the bytes were that went to the audio file
                    \* (audio), were read as a length byte (len) or as
                    \* metadata (meta); the audio bytes sent (srvAudio);
                    \* the last length byte read (lastLen)
    writesAfterFlag \* target.write calls made with stoprec already set

inVars == <<args, codec>>
supVars == <<supPc, stoprec, recordResult, engAtSet>>
locVars == <<resp, filenameExt, icyMetaint, readLength, metaTarget, metalength>>
audioVars == <<audioExists, audioOpen, audioPublic, audioFile>>
metaVars == <<metaExists, metaOpen, metaFile>>
netVars == <<pos, connEof, connClosed, closedAtEof, stalled, chunks>>
srvVars == <<srv, demux>>
endVars == <<abortReason, exitReason>>

vars == <<inVars, supVars, engPc, endVars, locVars, audioVars, metaVars,
          netVars, srvVars, writesAfterFlag>>

DefaultReadLength == 1024

\* No run of the codec alone.
CodecIdle == [pc |-> "idle", mapping |-> <<>>, wire |-> <<>>,
              out |-> [ok |-> TRUE, err |-> None, dta |-> <<>>]]

\* record is entered: nothing is started, no file exists.
InitProgram ==
    /\ supPc = "start"
    /\ stoprec = FALSE
    /\ recordResult = "pending"
    /\ engAtSet = None
    /\ engPc = "NotStarted"
    /\ abortReason = None
    /\ exitReason = None
    /\ resp = NoResponse
    /\ filenameExt = None
    /\ icyMetaint = [none |-> TRUE, val |-> 0]
    /\ readLength = 0
    /\ metaTarget = FALSE
    /\ metalength = 0
    /\ audioExists = FALSE /\ audioOpen = FALSE /\ audioPublic = FALSE
    /\ audioFile = <<>>
    /\ metaExists = FALSE /\ metaOpen = FALSE /\ metaFile = <<>>
    /\ pos = 0
    /\ connEof = FALSE
    /\ connClosed = FALSE
    /\ stalled = FALSE
    /\ chunks = 0
    /\ srv = Unframed
    /\ demux = [audio |-> {}, len |-> {}, meta |-> {}, srvAudio |-> 0,
                lastLen |-> 0]
    /\ writesAfterFlag = 0

Init ==
    /\ args \in [icy : BOOLEAN, public : BOOLEAN]
    /\ closedAtEof \in BOOLEAN
    /\ codec = CodecIdle
    /\ InitProgram

\* ------------------------------------------------------ the capture engine
Terminal == {"Completed", "Cancelled", "Aborted"}

\* The thread runs until the interpreter exits; a read that never returns
\* keeps it where it is.
EngineRuns == supPc # "exited" /\ ~stalled

\* Python truth value of icyMetaint: None and 0 are false.
Truthy(x) == ~x.none /\ x.val # 0

\* The test without its second operand.
MetadataModeOnRequest == args.icy

\* `args.icy and icyMetaint`, the test of lines 125 and 144.
MetadataMode == args.icy /\ Truthy(icyMetaint)

\* icy_header_keys: the header names that start with icy- in lower case,
\* kept in the server's spelling.
IcyHeaderKeys(hdrs) ==
    LET IsIcy(h) == StartsWith(Lower(h[1]), IcyPrefix)
        kept == SelectSeq(hdrs, IsIcy)
    IN  [i \in 1..Len(kept) |-> kept[i][1]]

InKeys(name, keys) == \E i \in 1..Len(keys) : keys[i] = name

\* An exception that leaves record_worker before the with block is entered.
Raise(reason) ==
    /\ engPc' = "Aborted"
    /\ abortReason' = reason
    /\ exitReason' = exitReason

\* RaiseInWith had target been opened without the with statement: nothing
\* closes it when an exception passes.
RaiseInWithLeak(reason) ==
    /\ engPc' = "Aborted"
    /\ abortReason' = reason
    /\ exitReason' = exitReason
    /\ UNCHANGED <<audioExists, audioOpen, audioPublic>>

\* An exception inside `with open(filename, "wb") as target`: the context
\* manager closes target, then the exception leaves record_worker.  The
\* statements after the with block (the sidecar's close) are skipped.
RaiseInWith(reason) ==
    /\ engPc' = "Aborted"
    /\ abortReason' = reason
    /\ exitReason' = exitReason
    /\ audioOpen' = FALSE
    /\ UNCHANGED <<audioExists, audioPublic>>

\* The connection runs dry during a read: fp becomes None.
HitEof ==
    /\ connEof' = TRUE
    /\ connClosed' = closedAtEof

\* urllib.request.urlopen(req)
Urlopen ==
    /\ EngineRuns /\ engPc = "Connecting"
    /\ \/ /\ Raise("ConnectionError")
          /\ UNCHANGED <<locVars, srv>>
       \/ /\ \E r \in Responses :
                /\ resp' = r
                /\ srv' = ServerOf(args.icy, r)
          /\ engPc' = "HeadersReceived"
          /\ UNCHANGED <<endVars, filenameExt, icyMetaint, readLength,
                         metaTarget, metalength>>
    /\ UNCHANGED <<inVars, supVars, audioVars, metaVars, netVars, demux,
                   writesAfterFlag>>

\* Lines 99-111: the extension from the Content-Type header.
ResolveContentType ==
    /\ EngineRuns /\ engPc = "HeadersReceived"
    /\ LET r == ContentTypeResolve(resp.contentType) IN
         \/ /\ r.kind = "ext"
            /\ filenameExt' = r.ext
            /\ engPc' = "IcyDecision"
            /\ UNCHANGED endVars
         \/ /\ r.kind = "SystemExit"
            /\ Raise("UnsupportedFormat")
            /\ UNCHANGED filenameExt
         \/ /\ r.kind = "TypeError"
            /\ Raise("TypeError(concat)")
            /\ UNCHANGED filenameExt
    /\ UNCHANGED <<inVars, supVars, resp, icyMetaint, readLength, metaTarget,
                   metalength, audioVars, metaVars, netVars, srvVars, writesAfterFlag>>

\* Lines 117-120: icyMetaint from the icy-metaint header.
IcyMetaintOf(icy, hdrs) ==
    IF icy
    THEN IF InKeys(IcyMetaintKey, IcyHeaderKeys(hdrs))
         THEN LET n == ParseInt(GetHeader(hdrs, IcyMetaintKey))
              IN  [ok |-> n.ok, none |-> FALSE, val |-> n.val]
         ELSE [ok |-> TRUE, none |-> TRUE, val |-> 0]
    ELSE [ok |-> TRUE, none |-> FALSE, val |-> 0]

\* Lines 121-123.
ReadLengthOf(m) == IF Truthy(m) THEN m.val ELSE DefaultReadLength

\* Lines 114-123: the metadata interval and the read size.
IcyDecision ==
    /\ EngineRuns /\ engPc = "IcyDecision"
    /\ LET m == IcyMetaintOf(args.icy, resp.icy) IN
         \/ /\ ~m.ok
            /\ Raise("ValueError(int)")
            /\ UNCHANGED <<icyMetaint, readLength>>
         \/ /\ m.ok
            /\ icyMetaint' = [none |-> m.none, val |-> m.val]
            /\ readLength' = ReadLengthOf(m)
            /\ engPc' = "OpenSidecar"
            /\ UNCHANGED endVars
    /\ UNCHANGED <<inVars, supVars, resp, filenameExt, metaTarget, metalength,
                   audioVars, metaVars, netVars, srvVars, writesAfterFlag>>

\* Line 130-132: one line per icy header.
HeaderLines(hdrs) ==
    LET keys == IcyHeaderKeys(hdrs)
    IN  [i \in 1..Len(keys) |-> <<"header", keys[i], GetHeader(hdrs, keys[i])>>]

\* Lines 125-134: the sidecar is opened in metadata mode only.
OpenSidecar ==
    /\ EngineRuns /\ engPc = "OpenSidecar"
    /\ IF MetadataMode
       THEN /\ metaTarget' = TRUE
            /\ metaExists' = TRUE
            /\ metaOpen' = TRUE
            /\ metaFile' = HeaderLines(resp.icy)
       ELSE /\ metaTarget' = FALSE
            /\ UNCHANGED metaVars
    /\ engPc' = "OpenAudio"
    /\ UNCHANGED <<inVars, supVars, endVars, resp, filenameExt, icyMetaint,
                   readLength, metalength, audioVars, netVars, srvVars, writesAfterFlag>>

\* Line 136: open(filename, "wb").
OpenAudio ==
    /\ EngineRuns /\ engPc = "OpenAudio"
    /\ audioExists' = TRUE
    /\ audioOpen' = TRUE
    /\ audioFile' = <<>>
    /\ engPc' = IF args.public THEN "Chmod" ELSE "LoopTest"
    /\ UNCHANGED <<inVars, supVars, endVars, locVars, audioPublic, metaVars,
                   netVars, srvVars, writesAfterFlag>>

\* Lines 137-140: os.chmod, which the file system may refuse.
Chmod ==
    /\ EngineRuns /\ engPc = "Chmod"
    /\ \/ /\ audioPublic' = TRUE
          /\ engPc' = "LoopTest"
          /\ UNCHANGED <<endVars, audioExists, audioOpen>>
       \/ RaiseInWith("PermissionError")
    /\ UNCHANGED <<inVars, supVars, locVars, audioFile, metaVars, netVars,
                   srvVars, writesAfterFlag>>

\* The while test without its first operand.
LoopConditionNoFlag == ~connClosed

\* Line 142: not stoprec.is_set() and not conn.closed
LoopCondition == ~stoprec /\ ~connClosed

\* The while test on an event that is cleared by the thread that saw it set.
LoopTestAutoReset ==
    /\ EngineRuns /\ engPc = "LoopTest"
    /\ IF LoopCondition
       THEN /\ engPc' = "ReadAudio"
            /\ UNCHANGED <<exitReason, audioOpen>>
       ELSE /\ engPc' = "CloseSidecar"
            /\ exitReason' = IF stoprec THEN "Cancelled" ELSE "Completed"
            /\ audioOpen' = FALSE
    /\ stoprec' = FALSE
    /\ UNCHANGED <<inVars, supPc, recordResult, engAtSet, abortReason, locVars,
                   audioExists, audioPublic, audioFile, metaVars, netVars,
                   srvVars, writesAfterFlag>>

\* Line 142: the while test; leaving the loop leaves the with block.
LoopTest ==
    /\ EngineRuns /\ engPc = "LoopTest"
    /\ IF LoopCondition
       THEN /\ engPc' = "ReadAudio"
            /\ UNCHANGED <<exitReason, audioOpen>>
       ELSE /\ engPc' = "CloseSidecar"
            /\ exitReason' = IF stoprec THEN "Cancelled" ELSE "Completed"
            /\ audioOpen' = FALSE
    /\ UNCHANGED <<inVars, supVars, abortReason, locVars, audioExists,
                   audioPublic, audioFile, metaVars, netVars, srvVars, writesAfterFlag>>

\* Byte counts a read of n bytes may return when the stream ends in it;
\* read(-1) returns everything up to the end.
ShortCounts(n) ==
    IF n > 0 THEN {k \in {0, 3, n - 1} : k < n} ELSE {0, DefaultReadLength}

\* target.write(data), data being k bytes read at position pos, and the
\* test of line 144.
WriteAudio(k) ==
    /\ audioFile' = IF k > 0 THEN Append(audioFile, <<pos, pos + k>>)
                    ELSE audioFile
    /\ writesAfterFlag' = IF stoprec THEN writesAfterFlag + 1
                          ELSE writesAfterFlag
    /\ engPc' = IF MetadataMode THEN "ReadMetaLen" ELSE "LoopTest"
    /\ UNCHANGED <<endVars, audioExists, audioOpen, audioPublic>>

\* The connection hands over k bytes that are read as kind (audio, len or
\* meta); v is the length byte among them, if there is one.
Consume(kind, k, v) ==
    LET e == Emit(srv, k, v) IN
    /\ srv' = e.srv
    /\ demux' = [demux EXCEPT ![kind] = @ \cup e.roles,
                              !.srvAudio = @ + e.audio,
                              !.lastLen = IF kind = "len" THEN v ELSE @]

\* A read that never returns.
Stall ==
    /\ stalled' = TRUE
    /\ UNCHANGED <<engPc, endVars, audioVars, pos, connEof, connClosed,
                   chunks, srvVars, writesAfterFlag>>

\* Line 143: target.write(conn.read(readLength)).  An exhausted response
\* returns b'' at once; a length below -1 raises ValueError in the buffered
\* reader; -1 reads to the end of the stream.
ReadAudio ==
    /\ EngineRuns /\ engPc = "ReadAudio"
    /\ \/ /\ connEof
          /\ WriteAudio(0)
          /\ UNCHANGED <<pos, connEof, connClosed, stalled, chunks, srvVars>>
       \/ /\ ~connEof /\ readLength < -1
          /\ RaiseInWith("ValueError(read)")
          /\ UNCHANGED <<audioFile, writesAfterFlag, pos, connEof,
                         connClosed, stalled, chunks, srvVars>>
       \/ /\ ~connEof /\ readLength > 0 /\ chunks < MaxChunks
          /\ WriteAudio(readLength)
          /\ \E v \in LengthBytes : Consume("audio", readLength, v)
          /\ pos' = pos + readLength
          /\ chunks' = chunks + 1
          /\ UNCHANGED <<connEof, connClosed, stalled>>
       \/ /\ ~connEof /\ readLength >= -1
          /\ \E k \in ShortCounts(readLength), v \in LengthBytes :
                /\ WriteAudio(k)
                /\ Consume("audio", k, v)
                /\ pos' = pos + k
          /\ HitEof
          /\ UNCHANGED <<stalled, chunks>>
       \/ /\ ~connEof /\ readLength >= -1
          /\ RaiseInWith("ConnectionError")
          /\ UNCHANGED <<audioFile, writesAfterFlag, pos, connEof,
                         connClosed, stalled, chunks, srvVars>>
       \/ /\ ~connEof /\ readLength >= -1
          /\ Stall
    /\ UNCHANGED <<inVars, supVars, locVars, metaVars, closedAtEof>>

\* The length byte taken as the length itself.
MetaLengthOfUnscaled(v) == v

\* A length that counts the length byte's own 16-byte unit.
MetaLengthOfInclusive(v) == (v + 1) * 16

\* Line 145: ord(...) * 16 on the byte read.
MetaLengthOf(v) == v * 16

\* Line 145: metalength = ord(conn.read(1)) * 16; ord(b'') raises TypeError.
ReadMetaLen ==
    /\ EngineRuns /\ engPc = "ReadMetaLen"
    /\ \/ /\ connEof
          /\ RaiseInWith("TypeError(ord)")
          /\ UNCHANGED <<metalength, audioFile, pos, connEof, connClosed,
                         stalled, chunks, srvVars>>
       \/ /\ ~connEof
          /\ \E v \in LengthBytes :
                /\ metalength' = MetaLengthOf(v)
                /\ engPc' = IF MetaLengthOf(v) > 0 THEN "ReadMeta"
                            ELSE "LoopTest"
                /\ Consume("len", 1, v)
          /\ pos' = pos + 1
          /\ UNCHANGED <<endVars, audioVars, connEof, connClosed, stalled,
                         chunks>>
       \/ /\ ~connEof
          /\ HitEof
          /\ RaiseInWith("TypeError(ord)")
          /\ UNCHANGED <<metalength, audioFile, pos, stalled, chunks, srvVars>>
       \/ /\ ~connEof
          /\ RaiseInWith("ConnectionError")
          /\ UNCHANGED <<metalength, audioFile, pos, connEof, connClosed,
                         stalled, chunks, srvVars>>
       \/ /\ ~connEof
          /\ Stall
          /\ UNCHANGED metalength
    /\ UNCHANGED <<inVars, supVars, resp, filenameExt, icyMetaint, readLength,
                   metaTarget, metaVars, closedAtEof, writesAfterFlag>>

\* Line 151: one sidecar line per decoded pair.  The elapsed minutes the
\* line starts with are the clock's and are left out.
MetaLines(dta) == [i \in 1..Len(dta) |-> <<"meta", dta[i][1], dta[i][2]>>]

\* Lines 147-158 on the bytes read: strip the NULs, decode, log.
HandleMetadata(data) ==
    LET metadata == StripNul(data) IN
    IF metadata = <<>>
    THEN /\ engPc' = "LoopTest"
         /\ UNCHANGED <<endVars, audioVars, metaVars>>
    ELSE LET r == parse_icy(metadata) IN
         IF r.ok
         THEN /\ engPc' = "LoopTest"
              /\ metaFile' = IF metaTarget THEN metaFile \o MetaLines(r.dta)
                             ELSE metaFile
              /\ UNCHANGED <<endVars, audioVars, metaExists, metaOpen>>
         ELSE /\ RaiseInWith(r.err)
              /\ UNCHANGED <<audioFile, metaVars>>

\* Line 147: conn.read(metalength) and what follows it.
ReadMeta ==
    /\ EngineRuns /\ engPc = "ReadMeta"
    /\ \/ /\ connEof
          /\ HandleMetadata(<<>>)
          /\ UNCHANGED <<pos, connEof, connClosed, stalled, chunks, srvVars>>
       \/ /\ ~connEof
          /\ \E p \in Payloads : HandleMetadata(MetaBlock(p, metalength))
          /\ \E v \in LengthBytes : Consume("meta", metalength, v)
          /\ pos' = pos + metalength
          /\ UNCHANGED <<connEof, connClosed, stalled, chunks>>
       \/ /\ ~connEof
          /\ \E p \in Payloads, k \in ShortCounts(metalength) :
                /\ HandleMetadata(SubSeq(MetaBlock(p, metalength), 1, k))
                /\ \E v \in LengthBytes : Consume("meta", k, v)
                /\ pos' = pos + k
          /\ HitEof
          /\ UNCHANGED <<stalled, chunks>>
       \/ /\ ~connEof
          /\ RaiseInWith("ConnectionError")
          /\ UNCHANGED <<audioFile, metaVars, pos, connEof, connClosed,
                         stalled, chunks, srvVars>>
       \/ /\ ~connEof
          /\ Stall
          /\ UNCHANGED metaVars
    /\ UNCHANGED <<inVars, supVars, locVars, closedAtEof, writesAfterFlag>>

\* Lines 160-162: after the with block the sidecar is flushed and closed.
CloseSidecar ==
    /\ EngineRuns /\ engPc = "CloseSidecar"
    /\ metaOpen' = IF args.icy /\ metaTarget THEN FALSE ELSE metaOpen
    /\ engPc' = exitReason
    /\ UNCHANGED <<inVars, supVars, endVars, locVars, audioVars, metaExists,
                   metaFile, netVars, srvVars, writesAfterFlag>>

\* The sidecar an exception left open is closed by nothing in the code; the
\* interpreter closes it if and when it collects the file object.
FinalizeSidecar ==
    /\ engPc = "Aborted" /\ metaOpen
    /\ metaOpen' = FALSE
    /\ UNCHANGED <<inVars, supVars, engPc, endVars, locVars, audioVars,
                   metaExists, metaFile, netVars, srvVars, writesAfterFlag>>

\* ---------------------------------------------------------- the supervisor
\* Lines 185-190: the Event, and the daemon thread is started.
StartThread ==
    /\ supPc = "start"
    /\ supPc' = "joining"
    /\ engPc' = "Connecting"
    /\ UNCHANGED <<inVars, stoprec, recordResult, engAtSet, endVars, locVars, audioVars,
                   metaVars, netVars, srvVars, writesAfterFlag>>

\* Line 191: join returns because record_worker ended.
JoinReturns ==
    /\ supPc = "joining"
    /\ engPc \in Terminal
    /\ supPc' = "afterJoin"
    /\ UNCHANGED <<inVars, stoprec, recordResult, engAtSet, engPc, endVars, locVars,
                   audioVars, metaVars, netVars, srvVars, writesAfterFlag>>

\* join() without a timeout: it returns only when record_worker has ended.
JoinWithoutTimeout ==
    /\ supPc = "joining"
    /\ engPc \in Terminal
    /\ supPc' = "afterJoin"
    /\ UNCHANGED <<inVars, stoprec, recordResult, engAtSet, engPc, endVars, locVars,
                   audioVars, metaVars, netVars, srvVars, writesAfterFlag>>

\* Line 191: join returns because duration * 60 seconds have passed.
JoinTimeout ==
    /\ supPc = "joining"
    /\ engPc \notin Terminal
    /\ supPc' = "afterJoin"
    /\ UNCHANGED <<inVars, stoprec, recordResult, engAtSet, engPc, endVars, locVars,
                   audioVars, metaVars, netVars, srvVars, writesAfterFlag>>

\* recthread.is_alive(), the call: false once record_worker has ended.
IsAliveCall == engPc \notin Terminal

\* Line 193: `recthread.is_alive` is the bound method, not a call of it:
\* the test is true whatever the thread's state.
IsAliveTest == TRUE

\* Setting the flag that also marks a started session as cancelled.
SetFlagAndReturnOverride ==
    /\ supPc = "afterJoin"
    /\ stoprec' = TRUE
    /\ engAtSet' = IF engPc \in Terminal THEN engPc ELSE "Running"
    /\ recordResult' = None
    /\ supPc' = "returned"
    /\ engPc' = "Cancelled"
    /\ UNCHANGED <<inVars, endVars, locVars, audioVars, metaVars,
                   netVars, srvVars, writesAfterFlag>>

\* Lines 193-194, and record returns None.
SetFlagAndReturn ==
    /\ supPc = "afterJoin"
    /\ stoprec' = IF IsAliveTest THEN TRUE ELSE stoprec
    /\ engAtSet' = IF ~IsAliveTest THEN engAtSet
                   ELSE IF engPc \in Terminal THEN engPc ELSE "Running"
    /\ recordResult' = None
    /\ supPc' = "returned"
    /\ UNCHANGED <<inVars, engPc, endVars, locVars, audioVars, metaVars,
                   netVars, srvVars, writesAfterFlag>>

\* Line 241 and the end of the script: main returns and the interpreter
\* exits without waiting for a daemon thread, which ends where it is.
ProcessExit ==
    /\ supPc = "returned"
    /\ supPc' = "exited"
    /\ engPc' = IF engPc \in Terminal THEN engPc ELSE "Killed"
    /\ UNCHANGED <<inVars, stoprec, recordResult, engAtSet, endVars, locVars, audioVars,
                   metaVars, netVars, srvVars, writesAfterFlag>>

Next ==
    \/ StartThread
    \/ JoinReturns
    \/ JoinTimeout
    \/ SetFlagAndReturn
    \/ ProcessExit
    \/ Urlopen
    \/ ResolveContentType
    \/ IcyDecision
    \/ OpenSidecar
    \/ OpenAudio
    \/ Chmod
    \/ LoopTest
    \/ ReadAudio
    \/ ReadMetaLen
    \/ ReadMeta
    \/ CloseSidecar
    \/ FinalizeSidecar

Spec == Init /\ [][Next]_vars

\* ------------------------------------------------------ the codec alone
\* parse_icy applied to the wire form of a mapping.  The wire form is the
\* stream's side of the protocol: key='value'; for every pair, in UTF-8.
MaxPairs == 2
Quote == 39

\* str.encode('utf-8') for code points below 2048.
RECURSIVE Utf8Encode(_)
Utf8Encode(t) ==
    IF t = <<>> THEN <<>>
    ELSE (IF t[1] < 128 THEN <<t[1]>>
          ELSE <<192 + (t[1] \div 64), 128 + (t[1] % 64)>>)
         \o Utf8Encode(Tail(t))

RECURSIVE EncodeIcy(_)
EncodeIcy(mapping) ==
    IF mapping = <<>> THEN <<>>
    ELSE Utf8Encode(mapping[1][1]) \o <<EqualsSign, Quote>>
         \o Utf8Encode(mapping[1][2]) \o <<Quote, Semicolon>>
         \o EncodeIcy(Tail(mapping))

\* Keys: a, b, " k" and the empty key.  Values: empty, x, " x ", a=b, it's,
\* e-acute and a lone quote.
CodecKeys == {<<97>>, <<98>>, <<32, 107>>, <<>>}

CodecValues ==
    {<<>>, <<120>>, <<32, 120, 32>>, <<97, 61, 98>>, <<105, 116, 39, 115>>,
     <<233>>, <<39>>}

\* StreamTitle='Artist - Song';StreamUrl='';
ExampleMapping ==
    << <<<<83, 116, 114, 101, 97, 109, 84, 105, 116, 108, 101>>,
         <<65, 114, 116, 105, 115, 116, 32, 45, 32, 83, 111, 110, 103>>>>,
       <<<<83, 116, 114, 101, 97, 109, 85, 114, 108>>, <<>>>> >>

RECURSIVE MappingsUpTo(_)
MappingsUpTo(n) ==
    IF n = 0 THEN {<<>>}
    ELSE LET shorter == MappingsUpTo(n - 1)
         IN  shorter \cup
             {Append(m, <<k, v>>) :
                 m \in {x \in shorter : Len(x) = n - 1},
                 k \in CodecKeys, v \in CodecValues}

DistinctKeys(m) ==
    \A i, j \in 1..Len(m) : m[i][1] = m[j][1] => i = j

CodecMappings ==
    {m \in MappingsUpTo(MaxPairs) : DistinctKeys(m)} \cup {ExampleMapping}

InitCodec ==
    /\ args = [icy |-> TRUE, public |-> FALSE]
    /\ closedAtEof = FALSE
    /\ \E m \in CodecMappings :
          codec = [CodecIdle EXCEPT !.pc = "input", !.mapping = m]
    /\ InitProgram

CodecEncode ==
    /\ codec.pc = "input"
    /\ codec' = [codec EXCEPT !.pc = "encoded",
                              !.wire = EncodeIcy(codec.mapping)]
    /\ UNCHANGED <<args, supVars, engPc, endVars, locVars, audioVars,
                   metaVars, netVars, srvVars, writesAfterFlag>>

CodecDecode ==
    /\ codec.pc = "encoded"
    /\ codec' = [codec EXCEPT !.pc = "decoded",
                              !.out = parse_icy(codec.wire)]
    /\ UNCHANGED <<args, supVars, engPc, endVars, locVars, audioVars,
                   metaVars, netVars, srvVars, writesAfterFlag>>

NextCodec ==
    \/ CodecEncode
    \/ CodecDecode

SpecCodec == InitCodec /\ [][NextCodec]_vars

\* ================================================================= claims
Streaming == {"LoopTest", "ReadAudio", "ReadMetaLen", "ReadMeta"}

\* The response has a header spelled icy-metaint whose value is a positive
\* integer.
ValidPositiveMetaint ==
    \E i \in 1..Len(resp.icy) :
        /\ resp.icy[i][1] = IcyMetaintKey
        /\ ParseInt(resp.icy[i][2]).ok
        /\ ParseInt(resp.icy[i][2]).val > 0

\* C1: once record_worker has left the with block, by the loop ending
\* (cancellation, connection closed) or by an exception (a read error, a
\* metadata decoding error, a chmod error), the audio file is closed: no
\* state of the engine after the loop, and no terminal state, has it open.
C1_AudioClosedOnEveryExit ==
    engPc \in Terminal \cup {"CloseSidecar"} => ~audioOpen

\* C1 witness: the engine aborted on a metadata block that is not UTF-8,
\* after writing audio, and the audio file is closed.
C1_Witness ==
    /\ engPc = "Aborted"
    /\ abortReason = "UnicodeDecodeError"
    /\ audioExists /\ audioFile # <<>>
    /\ ~audioOpen

\* C2: after a capture ended by the deadline the engine is not killed: by
\* the time the program is gone, an audio file that was opened has been
\* closed by an engine that reached a terminal state.
C2_DeadlineTeardownCompletes ==
    (supPc = "exited" /\ audioExists) => (engPc \in Terminal /\ ~audioOpen)

\* C3: the sidecar exists if and only if args.icy is set and the response
\* carried an icy-metaint header with a positive integer value (the "if" once
\* the engine is past the point where it opens its files).
C3_SidecarPresenceLaw ==
    /\ metaExists => (args.icy /\ ValidPositiveMetaint)
    /\ (audioExists /\ args.icy /\ ValidPositiveMetaint) => metaExists

\* C4: the engine calls target.write at most once with the cancellation flag
\* already set, and whenever record has returned the flag is set.
C4_DeadlineBound ==
    /\ writesAfterFlag <= 1
    /\ supPc \in {"returned", "exited"} => stoprec

\* C4 witness: the flag was set during an iteration, the engine appended
\* that iteration's chunk and then left the loop as cancelled.
C4_Witness ==
    /\ engPc = "Cancelled"
    /\ writesAfterFlag = 1
    /\ Len(audioFile) = MaxChunks

\* C5: a metadata block that is not UTF-8 or has a field without '=' never
\* aborts the session.
C5_MalformedMetadataSkipped ==
    abortReason \notin {"UnicodeDecodeError", "ValueError(unpack)"}

\* C6: with Content-Type audio/x-mpegurl the engine ends in HeadersReceived:
\* no audio file, no sidecar, no byte read, whatever args.icy and the
\* icy-metaint header are; and only that content type aborts as unsupported.
C6_UnsupportedFormatNoArtifacts ==
    /\ resp.contentType = "audio/x-mpegurl" =>
          /\ engPc \in {"HeadersReceived", "Aborted", "Killed"}
          /\ ~audioExists /\ ~metaExists
          /\ pos = 0 /\ audioFile = <<>> /\ metaFile = <<>>
    /\ abortReason = "UnsupportedFormat" =>
          resp.contentType = "audio/x-mpegurl"

\* C6 witness: a playlist response to a request with args.icy that carries a
\* usable icy-metaint header has aborted the engine.
C6_Witness ==
    /\ engPc = "Aborted"
    /\ abortReason = "UnsupportedFormat"
    /\ args.icy /\ ValidPositiveMetaint

\* C7: the resolver fails on audio/x-mpegurl only; for every other
\* Content-Type, the missing header included, it yields the extension of the
\* table.
C7_ResolverTotality ==
    LET ct == resp.contentType
        tableExt ==
            IF ct = "audio/mpeg" THEN ".mp3"
            ELSE IF ct \in {"application/aacp", "audio/aacp", "audio/aac"}
            THEN ".aac"
            ELSE IF ct \in {"application/ogg", "audio/ogg"} THEN ".ogg"
            ELSE ".mp3"
    IN  /\ abortReason # "TypeError(concat)"
        /\ abortReason = "UnsupportedFormat" => ct = "audio/x-mpegurl"
        /\ filenameExt # None => filenameExt = tableExt
        /\ audioExists => filenameExt = tableExt

\* C8: when the engine aborted on a connection error or an unsupported
\* format, what record hands back differs from None, which is what it hands
\* back after a capture that completed or was cancelled.
C8_ErrorsReachCaller ==
    (/\ supPc \in {"returned", "exited"}
     /\ engPc = "Aborted"
     /\ abortReason \in {"ConnectionError", "UnsupportedFormat"})
        => recordResult # None

\* C9: a failing chmod never aborts the session.
C9_ChmodFailureTolerated ==
    abortReason # "PermissionError"

\* C10: once the decision of HeadersReceived is made, metadata mode is on
\* with readLength the header's value exactly when args.icy is set and the
\* icy-metaint header holds a positive integer; otherwise the mode is off and
\* readLength is 1024; and the decision itself never aborts the session.
C10_MetadataModeDecision ==
    /\ abortReason # "ValueError(int)"
    /\ readLength # 0 =>
          IF args.icy /\ ValidPositiveMetaint
          THEN MetadataMode
               /\ readLength = ParseInt(GetHeader(resp.icy, IcyMetaintKey)).val
          ELSE ~MetadataMode /\ readLength = DefaultReadLength

\* C11: once the connection has reached the end of the stream with no
\* cancellation signalled, the engine does not abort (it is on its way to
\* Completed), with metadata mode off and with metadata mode on.
C11_EofCompletes ==
    (connEof /\ ~stoprec) => engPc # "Aborted"

\* C12: the step that sets the cancellation flag when the engine is already
\* Completed or Aborted ends record normally and leaves the engine's state,
\* the audio file and the sidecar as they were.
C12_CancelAfterEndIsNoOp ==
    [][(engPc \in {"Completed", "Aborted"} /\ ~stoprec /\ stoprec')
          => /\ engPc' = engPc
             /\ endVars' = endVars
             /\ audioVars' = audioVars
             /\ metaVars' = metaVars
             /\ recordResult' = None]_vars

\* C12 witness: the flag was set on an engine that had completed a capture
\* with a sidecar, and the engine is still Completed.
C12_Witness ==
    /\ stoprec
    /\ engAtSet = "Completed"
    /\ engPc = "Completed"
    /\ metaExists /\ audioFile # <<>>

\* C13: decoding the wire form key='value'; ... of a mapping with distinct
\* keys (no ';' or '=') and values without ';' gives the mapping back.
C13_CodecRoundTrip ==
    codec.pc = "decoded" =>
        /\ codec.out.ok
        /\ codec.out.dta = codec.mapping

\* C13 witness: StreamTitle='Artist - Song';StreamUrl=''; has been decoded
\* to StreamTitle -> Artist - Song, StreamUrl -> the empty text.
C13_Witness ==
    /\ codec.pc = "decoded"
    /\ codec.mapping = ExampleMapping
    /\ codec.out.dta = ExampleMapping

\* Bytes in the audio file.
RECURSIVE AudioBytes(_)
AudioBytes(f) ==
    IF f = <<>> THEN 0 ELSE (f[1][2] - f[1][1]) + AudioBytes(Tail(f))

\* The chunks of the audio file are in the order of the stream.
InStreamOrder(f) ==
    /\ \A i \in 1..Len(f) : f[i][1] < f[i][2]
    /\ \A i \in 1..(Len(f) - 1) : f[i][2] <= f[i + 1][1]

\* C14: in metadata mode on a stream framed by the server, only audio bytes
\* are in the audio file, all the audio bytes sent so far are in it, in the
\* order of the stream; what was read as a length byte was a length byte
\* and what was read as metadata was metadata.
C14_DemuxCorrect ==
    (MetadataMode /\ srv.framed) =>
        /\ demux.audio \subseteq {"audio"}
        /\ demux.len \subseteq {"len"}
        /\ demux.meta \subseteq {"meta"}
        /\ AudioBytes(audioFile) = demux.srvAudio
        /\ InStreamOrder(audioFile)

\* C14 witness: two audio chunks are in the file, with a metadata block of
\* 16 bytes read between them.
C14_Witness ==
    /\ MetadataMode /\ srv.framed
    /\ Len(audioFile) = 2
    /\ demux.meta = {"meta"}
    /\ demux.len = {"len"}
    /\ audioFile[2][1] = audioFile[1][2] + 17

\* C15: whenever metadata mode was active, the sidecar is closed once the
\* engine is in a terminal state, however it got there.
C15_SidecarClosedOnEveryExit ==
    (engPc \in Terminal /\ metaTarget) => ~metaOpen

\* C16: an engine whose read never returns stays in the loop where it is,
\* flag or no flag, until the process exits; record is never held up by
\* it: the join can time out, the flag can be set, and once record has
\* returned the flag is set.
C16_StalledEngineNeverHoldsSupervisor ==
    /\ [](stalled =>
            /\ engPc \in Streaming \cup {"Killed"}
            /\ (engPc = "Killed" <=> supPc = "exited")
            /\ (supPc = "joining" => ENABLED JoinTimeout)
            /\ (supPc = "afterJoin" => ENABLED SetFlagAndReturn)
            /\ (supPc \in {"returned", "exited"} =>
                    stoprec /\ recordResult = None))
    /\ [][stalled =>
            /\ stalled'
            /\ (engPc' = engPc \/ supPc' = "exited")
            /\ audioVars' = audioVars
            /\ metaVars' = metaVars
            /\ pos' = pos]_vars

\* C16 witness: the read of an audio chunk hangs, the flag is set and
\* record has returned.
C16_Witness ==
    /\ stalled /\ stoprec
    /\ supPc = "returned"
    /\ engPc = "ReadAudio"
    /\ engAtSet = "Running"

\* C17: the flag changes only from unset to set and only in a step of
\* record, which touches neither file nor the engine; a step that changes
\* the audio file or the sidecar is not a step of record and leaves the
\* flag as it is.
C17_OwnershipPartition ==
    [][/\ (stoprec => stoprec')
       /\ (stoprec' # stoprec =>
              /\ supPc = "afterJoin" /\ supPc' = "returned"
              /\ engPc' = engPc
              /\ audioVars' = audioVars
              /\ metaVars' = metaVars)
       /\ ((audioVars' # audioVars \/ metaVars' # metaVars) =>
              /\ supVars' = supVars
              /\ engPc \notin {"NotStarted", "Killed"})
       /\ (engPc' # engPc =>
              \/ stoprec' = stoprec /\ supPc' = supPc
              \/ stoprec' = stoprec /\ supPc' \in {"joining", "exited"}
                   /\ audioVars' = audioVars /\ metaVars' = metaVars)]_vars

\* C17 witness: the engine has written both files and was cancelled by the
\* flag that record set while it was running.
C17_Witness ==
    /\ stoprec /\ engAtSet = "Running"
    /\ engPc = "Cancelled"
    /\ audioFile # <<>>
    /\ metaExists /\ metaFile # <<>>

\* A step that reads a length byte.
LengthByteRead == engPc = "ReadMetaLen" /\ pos' = pos + 1

\* C18: in metadata mode a length byte of 0 is followed by no metadata read
\* and no sidecar line: the step that reads it goes back to the while test
\* having taken that one byte, the sidecar is as it was, and the read after
\* it is the read of the next audio chunk, which starts at the byte after
\* the length byte.
C18_ZeroLengthFrame ==
    /\ [](engPc = "ReadMeta" => demux.lastLen > 0)
    /\ [][(LengthByteRead /\ demux'.lastLen = 0) =>
            /\ engPc' = "LoopTest"
            /\ metalength' = 0
            /\ metaVars' = metaVars
            /\ audioVars' = audioVars
            /\ demux'.meta = demux.meta]_vars
    /\ [][(engPc = "ReadAudio" /\ demux.lastLen = 0 /\ audioFile' # audioFile)
            => audioFile'[Len(audioFile')][1] = pos]_vars

\* C18 witness: after a first audio chunk a length byte of 0 was read, the
\* second audio chunk follows it at once and the sidecar holds the header
\* line only.
C18_Witness ==
    /\ MetadataMode /\ srv.framed
    /\ demux.lastLen = 0
    /\ Len(audioFile) = 2
    /\ audioFile[2][1] = audioFile[1][2] + 1
    /\ metaFile = HeaderLines(resp.icy)
    /\ demux.meta = {}

\* C19: every execution of record that gets past the join sets the flag,
\* also when the engine had already completed or aborted: the step that
\* follows the join sets it, the flag records the engine's state at
\* that step, and once record has returned None the flag is set.
C19_FlagSetWheneverRecordReturns ==
    /\ [](recordResult = None => stoprec /\ engAtSet # None)
    /\ [][(supPc = "afterJoin" /\ supPc' # supPc) =>
            /\ stoprec'
            /\ recordResult' = None
            /\ engAtSet' = IF engPc \in Terminal THEN engPc ELSE "Running"]_vars

\* C19 witness: record has returned with the flag set although the engine
\* had aborted before the join returned.
C19_Witness ==
    /\ supPc = "returned" /\ recordResult = None
    /\ stoprec
    /\ engAtSet = "Aborted" /\ engPc = "Aborted"

\* The chunks of f are the stream from its first byte up to position p.
WholeStreamUpTo(f, p) ==
    /\ f = <<>> => p = 0
    /\ f # <<>> => f[1][1] = 0 /\ f[Len(f)][2] = p
    /\ \A i \in 1..(Len(f) - 1) : f[i][2] = f[i + 1][1]

\* C20: with metadata mode off (args.icy false, or icyMetaint None or 0) the
\* engine is never at the read of a length byte or of a metadata block and
\* has read no byte as either, no sidecar exists or was written, and the
\* audio file is all the bytes read from the connection, in order.
C20_ModeOffAudioIsStreamPrefix ==
    ~(args.icy /\ Truthy(icyMetaint)) =>
        /\ engPc \notin {"ReadMetaLen", "ReadMeta"}
        /\ demux.len = {} /\ demux.meta = {}
        /\ ~metaTarget /\ ~metaExists /\ ~metaOpen /\ metaFile = <<>>
        /\ WholeStreamUpTo(audioFile, pos)

\* C20 witness: metadata was asked for, the server frames its stream but
\* announces the interval under another spelling, and two chunks of 1024
\* bytes, length bytes included, are in the audio file.
C20_Witness ==
    /\ args.icy /\ ~Truthy(icyMetaint)
    /\ srv.framed
    /\ readLength = DefaultReadLength
    /\ Len(audioFile) = 2
    /\ pos = 2 * DefaultReadLength
    /\ "len" \in demux.audio

====
